---- MODULE Spec2Model ----
(***************************************************************************)
(* In-memory cache engine of react-native-storage: Cache, its LRU eviction *)
(* strategy, the statistics tracker, the glob pattern matcher and the      *)
(* TTLCache subclass with its cleanup sweep and destroy lifecycle.         *)
(*                                                                         *)
(* A key is a sequence of one-character strings (the empty sequence is the *)
(* empty string).  The Map that holds the entries is a sequence of entry   *)
(* records in insertion order.  Date.now() is the variable now, advanced   *)
(* by Tick between calls and within a call that reads the clock twice (set *)
(* and a get that hits): such a call reads now first and now' second.      *)
(***************************************************************************)
EXTENDS Integers, Sequences, FiniteSets, TLC

\* ------------------------------------------------------------------ bounds
MaxTime == 2         \* last clock reading
MaxGets == 1         \* get calls counted before hits + misses is capped
MaxEvictions == 1    \* evictions counted before the counter is capped
MaxGlobLen == 2      \* longest key and longest pattern given to matchesPattern
MaxRegexes == 3      \* RegExp objects constructed before compiling is capped
MaxInstances == 2    \* Cache objects CacheManager constructs before creating is capped
MaxEntries == 2      \* largest entry map given to an eviction strategy
MaxReads == 2        \* get calls a counting caller makes between two clear() calls
MaxCalls == 2        \* calls of ErrorHandler.withTimeout

\* config.defaultTTL the caches of the model are constructed with
DefaultTTL == 2

\* ------------------------------------------------------------ input domains
Keys == { <<>>, <<"a">> }
\* config.maxSize: a cache smaller than the key set and one that holds it all
Capacities == 1..Cardinality(Keys)
Values == { "v1", "v2" }
\* the calls of set: set(k, "v1") and set(k, "v2", 1); the value is an opaque
\* payload no branch of the code reads; as ttl argument <<>> is an omitted
\* argument and <<n>> the number n
SetArgs == { [value |-> "v1", ttl |-> <<>>], [value |-> "v2", ttl |-> <<1>>] }
Patterns == { <<>>, <<"*">>, <<"a", "*">>, <<"a">>, <<"*", "b">> }

VARIABLES
    maxSize,          \* config.maxSize
    store,            \* Cache.store, a Map in insertion order
    stats,            \* CacheStatsTracker.stats
    now,              \* Date.now()
    isDestroyed,      \* TTLCache.isDestroyed
    cleanupInterval,  \* TTLCache.cleanupInterval is set (TRUE) or null (FALSE)
    last,             \* the last call: name, key or pattern, branch, return value, callbacks
    pc,               \* position of a scripted caller (0 when calls are free), or
                      \* the get calls a counting caller made since new or clear()
    regexCache,       \* the module-level Map of PatternMatcher, pattern -> RegExp
    regexes,          \* the RegExp objects constructed so far, by identity (their index)
    caches,           \* CacheManager.caches, a Map name -> Cache instance
    instances,        \* the Cache objects CacheManager has constructed, by identity
    timeouts,         \* the calls of ErrorHandler.withTimeout so far, each with its
                      \* wrapped promise, its timer and the promise it returned
    microtasks        \* the microtask queue: the reactions of the races of
                      \* withTimeout to a settled promise, which resume the call

vars == <<maxSize, store, stats, now, isDestroyed, cleanupInterval, last, pc,
          regexCache, regexes, caches, instances, timeouts, microtasks>>

\* ------------------------------------------------------- CacheStatsTracker
ZeroStats == [size |-> 0, hits |-> 0, misses |-> 0, evictions |-> 0, expirations |-> 0]

recordHit(st) == [st EXCEPT !.hits = @ + 1]
\* a miss that is counted twice
recordMissTwice(st) == [st EXCEPT !.misses = @ + 2]

recordMiss(st) == [st EXCEPT !.misses = @ + 1]
recordEviction(st) == [st EXCEPT !.evictions = @ + 1]
recordExpiration(st) == [st EXCEPT !.expirations = @ + 1]
\* a size statistic that is never refreshed
updateSizeNever(st, n) == st
updateSize(st, n) == [st EXCEPT !.size = n]
\* a reset that only zeroes the size
resetSizeOnly(st) == [st EXCEPT !.size = 0]
reset(st) == ZeroStats

\* ------------------------------------------------------------ Map helpers
MapHas(s, k) == \E i \in 1..Len(s) : s[i].key = k
MapIndex(s, k) == CHOOSE i \in 1..Len(s) : s[i].key = k
MapGet(s, k) == s[MapIndex(s, k)]
MapKeys(s) == [i \in 1..Len(s) |-> s[i].key]
MapKeySet(s) == { s[i].key : i \in 1..Len(s) }
MapDelete(s, k) == SelectSeq(s, LAMBDA e : e.key # k)
\* Map.set keeps the position of a key that is already present
MapSet(s, k, e) ==
    IF MapHas(s, k) THEN [s EXCEPT ![MapIndex(s, k)] = e] ELSE Append(s, e)

\* ------------------------------------------------------------ PatternMatcher
EscapeSet == { ".", "+", "?", "^", "$", "{", "}", "(", ")", "|", "[", "]", "\\" }
\* the characters a dot of a RegExp without the s flag refuses: LF, CR,
\* U+2028 and U+2029, the last two written as their escapes, each one
\* character of a key
LineTerminators == { "\n", "\r", "\\u2028", "\\u2029" }

\* an escape step that leaves every character as it is
EscapeNothing(p) == p

RECURSIVE EscapeSpecials(_)
\* pattern.replace(/[.+?^${}()|[\]\\]/g, '\\$&')
EscapeSpecials(p) ==
    IF p = <<>> THEN <<>>
    ELSE (IF Head(p) \in EscapeSet THEN <<"\\", Head(p)>> ELSE <<Head(p)>>)
         \o EscapeSpecials(Tail(p))

RECURSIVE ReplaceStars(_)
\* .replace(/\*/g, '.*')
ReplaceStars(p) ==
    IF p = <<>> THEN <<>>
    ELSE (IF Head(p) = "*" THEN <<".", "*">> ELSE <<Head(p)>>)
         \o ReplaceStars(Tail(p))

\* the source of the RegExp between ^ and $
convertPatternToRegex(p) == ReplaceStars(EscapeSpecials(p))

RECURSIVE RegexMatch(_, _)
\* RegExp.prototype.test for ^source$, the source being a sequence of
\* escaped characters, plain characters, ".*" groups and single dots; a dot
\* matches any character but a line terminator (the RegExp has no s flag)
RegexMatch(re, k) ==
    IF re = <<>> THEN k = <<>>
    ELSE IF Head(re) = "\\" /\ Len(re) >= 2
    THEN k # <<>> /\ Head(k) = re[2] /\ RegexMatch(SubSeq(re, 3, Len(re)), Tail(k))
    ELSE IF Head(re) = "." /\ Len(re) >= 2 /\ re[2] = "*"
    THEN \/ RegexMatch(SubSeq(re, 3, Len(re)), k)
         \/ k # <<>> /\ Head(k) \notin LineTerminators /\ RegexMatch(re, Tail(k))
    ELSE IF Head(re) = "."
    THEN k # <<>> /\ Head(k) \notin LineTerminators /\ RegexMatch(Tail(re), Tail(k))
    ELSE k # <<>> /\ Head(k) = Head(re) /\ RegexMatch(Tail(re), Tail(k))

matchesPattern(k, p) == RegexMatch(convertPatternToRegex(p), k)

\* regex.test(key)
RegexTest(regex, k) == RegexMatch(regex.source, k)

\* the argument of convertPatternToRegex: a string or, through `as any`,
\* null, undefined, a number or an object
Str(chars) == [type |-> "string", chars |-> chars]
NonStrings ==
    { [type |-> t, chars |-> <<>>] : t \in {"null", "undefined", "number", "object"} }

\* a convertPatternToRegex that compiles on every call
PatternMatcher_convertUncached(rc, heap, pattern) ==
    IF pattern.type # "string"
    THEN [regexCache |-> rc, regexes |-> heap, threw |-> TRUE, id |-> 0, path |-> "threw"]
    ELSE LET regex == [pattern |-> pattern, source |-> convertPatternToRegex(pattern.chars)]
             id == Len(heap) + 1
         IN [regexCache |-> MapSet(rc, pattern, [key |-> pattern, regex |-> id]),
             regexes |-> Append(heap, regex), threw |-> FALSE, id |-> id,
             path |-> "compiled"]

\* a convertPatternToRegex that reserves the memo entry before it compiles
PatternMatcher_convertMemoFirst(rc, heap, pattern) ==
    IF MapHas(rc, pattern)
    THEN [regexCache |-> rc, regexes |-> heap, threw |-> MapGet(rc, pattern).regex = 0,
          id |-> MapGet(rc, pattern).regex, path |-> "cached"]
    ELSE IF pattern.type # "string"
    THEN [regexCache |-> MapSet(rc, pattern, [key |-> pattern, regex |-> 0]),
          regexes |-> heap, threw |-> TRUE, id |-> 0, path |-> "threw"]
    ELSE LET regex == [pattern |-> pattern, source |-> convertPatternToRegex(pattern.chars)]
             id == Len(heap) + 1
         IN [regexCache |-> MapSet(rc, pattern, [key |-> pattern, regex |-> id]),
             regexes |-> Append(heap, regex), threw |-> FALSE, id |-> id,
             path |-> "compiled"]

\* PatternMatcher.convertPatternToRegex with its memo rc and the RegExp
\* objects heap: a memoized pattern returns the stored object; otherwise
\* pattern.replace throws a TypeError for a non-string before anything is
\* stored, and a string is compiled, stored and returned
PatternMatcher_convertPatternToRegex(rc, heap, pattern) ==
    IF MapHas(rc, pattern)
    THEN [regexCache |-> rc, regexes |-> heap, threw |-> FALSE,
          id |-> MapGet(rc, pattern).regex, path |-> "cached"]
    ELSE IF pattern.type # "string"
    THEN [regexCache |-> rc, regexes |-> heap, threw |-> TRUE, id |-> 0, path |-> "threw"]
    ELSE LET regex == [pattern |-> pattern, source |-> convertPatternToRegex(pattern.chars)]
             id == Len(heap) + 1
         IN [regexCache |-> MapSet(rc, pattern, [key |-> pattern, regex |-> id]),
             regexes |-> Append(heap, regex), threw |-> FALSE, id |-> id,
             path |-> "compiled"]

\* PatternMatcher.matchesPattern: the conversion, then regex.test(key)
PatternMatcher_matchesPattern(rc, heap, k, pattern) ==
    LET c == PatternMatcher_convertPatternToRegex(rc, heap, pattern) IN
    [regexCache |-> c.regexCache, regexes |-> c.regexes, threw |-> c.threw,
     path |-> c.path,
     result |-> IF c.threw THEN FALSE ELSE RegexTest(c.regexes[c.id], k)]

PatternMatcher_clearCache(rc) == <<>>

\* -------------------------------------------------------------- ErrorHandler
\* A promise is pending, fulfilled, or rejected with a reason that is a
\* CacheError with its code, another Error, or a value that is no Error.
PendingPromise == [state |-> "pending", class |-> "none", code |-> ""]
Fulfilled == [state |-> "fulfilled", class |-> "none", code |-> ""]
Rejected(class, code) == [state |-> "rejected", class |-> class, code |-> code]

\* ErrorHandler.handle always throws a CacheError: the one it was given, or
\* a new one with code CACHE_ERROR for an Error and UNKNOWN_ERROR otherwise
ErrorHandler_handle(error) ==
    IF error.class = "CacheError" THEN Rejected("CacheError", error.code)
    ELSE IF error.class = "Error" THEN Rejected("CacheError", "CACHE_ERROR")
    ELSE Rejected("CacheError", "UNKNOWN_ERROR")

\* setTimeout(callback, timeoutMs) at time t: a delay below 0 counts as 0
SetTimeout(timeoutMs, t) ==
    [state |-> "pending", due |-> t + (IF timeoutMs > 0 THEN timeoutMs ELSE 0)]

\* whether the callback of a timer may run when Date.now() reads t: the
\* event loop measures the delay on its own clock, which the truncated
\* reading of Date.now() trails by up to a millisecond, so the callback can
\* run while Date.now() still reads one less than call time plus delay
TimerElapsed(timer, t) == t + 1 >= timer.due

\* the function resuming after await Promise.race([promise, timeoutPromise])
\* in a microtask: the race is settled by the first of the two promises
\* that settled (by), the value of the wrapped promise is returned, a
\* rejection, of the wrapped promise or the one of the timer, goes through
\* handle; a later reaction of the other promise changes nothing; the timer
\* is left as it is
Race(c, by) ==
    IF c.returned.state # "pending" THEN c
    ELSE IF by = "timer"
    THEN [c EXCEPT !.returned = ErrorHandler_handle(Rejected("CacheError", "TIMEOUT")),
                   !.by = "timer"]
    ELSE [c EXCEPT !.returned = IF c.promise.state = "fulfilled" THEN Fulfilled
                                ELSE ErrorHandler_handle(c.promise),
                   !.by = "promise"]

\* ErrorHandler.withTimeout(promise, timeoutMs, context) called at time t:
\* the async function starts the timer, runs to its await and returns a
\* pending promise, also when the wrapped promise is settled already
ErrorHandler_withTimeout(promise, timeoutMs, t) ==
    [promise |-> promise, timer |-> SetTimeout(timeoutMs, t),
     returned |-> PendingPromise, by |-> "none"]

\* the callback of the timer: reject(new CacheError(..., 'TIMEOUT')) settles
\* timeoutPromise; the promise withTimeout returned is not touched before
\* the function resumes
TimeoutCallback(c) == [c EXCEPT !.timer.state = "fired"]

\* a reaction of the race in the microtask queue: the call and which of its
\* two promises settled
Reaction(i, by) == [call |-> i, by |-> by]

\* --------------------------------------------------------------- LRUStrategy
NoKey == [defined |-> FALSE, key |-> <<>>]
SomeKey(k) == [defined |-> TRUE, key |-> k]

RECURSIVE LRUScanLastOfTies(_, _, _, _)
\* a scan that moves on to a later entry of the same age
LRUScanLastOfTies(s, i, oldest, oldestTime) ==
    IF i > Len(s) THEN oldest
    ELSE IF ~oldest.defined \/ s[i].lastAccess <= oldestTime
         THEN LRUScanLastOfTies(s, i + 1, SomeKey(s[i].key), s[i].lastAccess)
         ELSE LRUScanLastOfTies(s, i + 1, oldest, oldestTime)

RECURSIVE LRUScan(_, _, _, _)
\* the for loop of findKeyToEvict; oldestTime is Infinity while oldest is undefined
LRUScan(s, i, oldest, oldestTime) ==
    IF i > Len(s) THEN oldest
    ELSE IF ~oldest.defined \/ s[i].lastAccess < oldestTime
         THEN LRUScan(s, i + 1, SomeKey(s[i].key), s[i].lastAccess)
         ELSE LRUScan(s, i + 1, oldest, oldestTime)

LRUfindKeyToEvict(s) == LRUScan(s, 1, NoKey, 0)

\* `if (keyToEvict)`: undefined and the empty string are falsy
Truthy(ok) == ok.defined /\ ok.key # <<>>

\* ---------------------------------------------------- eviction strategies
\* A number that is an integer or Infinity, with + and < as JavaScript
\* computes them.
Finite(n) == [finite |-> TRUE, n |-> n]
Infinity == [finite |-> FALSE, n |-> 0]
Plus(a, b) == IF a.finite /\ b.finite THEN Finite(a.n + b.n) ELSE Infinity
Less(a, b) == a.finite /\ (~b.finite \/ a.n < b.n)

RECURSIVE LFUScanLastOfTies(_, _, _, _)
\* a scan that moves on to a later entry of the same count
LFUScanLastOfTies(s, i, least, leastCount) ==
    IF i > Len(s) THEN least
    ELSE IF ~Less(leastCount, Finite(s[i].accessCount))
         THEN LFUScanLastOfTies(s, i + 1, SomeKey(s[i].key), Finite(s[i].accessCount))
         ELSE LFUScanLastOfTies(s, i + 1, least, leastCount)

RECURSIVE LFUScan(_, _, _, _)
\* the for loop of LFUStrategy.findKeyToEvict
LFUScan(s, i, least, leastCount) ==
    IF i > Len(s) THEN least
    ELSE IF Less(Finite(s[i].accessCount), leastCount)
         THEN LFUScan(s, i + 1, SomeKey(s[i].key), Finite(s[i].accessCount))
         ELSE LFUScan(s, i + 1, least, leastCount)

LFUfindKeyToEvict(s) == LFUScan(s, 1, NoKey, Infinity)

\* a FIFO that picks by age of use
FIFOfindKeyToEvictByUse(s) == LRUfindKeyToEvict(s)

\* entries.keys().next().value
FIFOfindKeyToEvict(s) == IF s = <<>> THEN NoKey ELSE SomeKey(s[1].key)

RECURSIVE TTLScan(_, _, _, _)
\* the for loop of TTLStrategy.findKeyToEvict; the ttl of an entry of the
\* map is Finite(n) or Infinity
TTLScan(s, i, nearest, nearestExpiry) ==
    IF i > Len(s) THEN nearest
    ELSE LET expiry == Plus(Finite(s[i].timestamp), s[i].ttl) IN
         IF Less(expiry, nearestExpiry)
         THEN TTLScan(s, i + 1, SomeKey(s[i].key), expiry)
         ELSE TTLScan(s, i + 1, nearest, nearestExpiry)

TTLfindKeyToEvict(s) == TTLScan(s, 1, NoKey, Infinity)

\* ----------------------------------------------------------------- Cache
\* Every method is an operator from the store s, the statistics st and the
\* clock readings of the call (t the first, t2 the second where the method
\* reads Date.now() twice) to the new store and statistics, the return value,
\* the callbacks invoked and the branch taken.
\* return values: undefined/void, a stored value, a boolean or a number
Void == [kind |-> "void", v |-> "", b |-> FALSE, n |-> 0]
Undefined == [kind |-> "undefined", v |-> "", b |-> FALSE, n |-> 0]
Value(x) == [kind |-> "value", v |-> x, b |-> FALSE, n |-> 0]
Bool(x) == [kind |-> "boolean", v |-> "", b |-> x, n |-> 0]
Num(x) == [kind |-> "number", v |-> "", b |-> FALSE, n |-> x]
\* an object, by identity
Ref(x) == [kind |-> "object", v |-> "", b |-> FALSE, n |-> x]
\* the call threw
Threw == [kind |-> "throw", v |-> "", b |-> FALSE, n |-> 0]

Result(s, st, ret, path, calls) ==
    [store |-> s, stats |-> st, ret |-> ret, path |-> path, calls |-> calls]

\* an expiry test that already expires an entry at age ttl
isExpiredAtTTL(e, t) == t - e.timestamp >= e.ttl

\* Date.now() - entry.timestamp > entry.ttl
isExpired(e, t) == t - e.timestamp > e.ttl

\* Cache.evictOne('lru')
evictOne(s, st) ==
    LET keyToEvict == LRUfindKeyToEvict(s) IN
    IF Truthy(keyToEvict)
    THEN LET entry == MapGet(s, keyToEvict.key)
             s1 == MapDelete(s, keyToEvict.key)
         IN Result(s1, updateSize(recordEviction(st), Len(s1)), Void, "evict",
                   << <<"onEvict", keyToEvict.key, entry>> >>)
    ELSE Result(s, st, Void, "noevict", <<>>)

\* ttl || this.config.defaultTTL: an omitted argument and 0 are falsy
EntryTTL(ttlArg) == IF ttlArg # <<>> /\ ttlArg[1] # 0 THEN ttlArg[1] ELSE DefaultTTL

\* the entry literal of set: timestamp: Date.now(), ..., lastAccess: Date.now()
NewEntry(k, v, ttlArg, t, t2) ==
    [key |-> k, value |-> v, timestamp |-> t, ttl |-> EntryTTL(ttlArg),
     accessCount |-> 0, lastAccess |-> t2]

\* a capacity test that forgets the key may already be stored
WouldEvictAnyKey(cap, s, k) == Len(s) >= cap

WouldEvict(cap, s, k) == Len(s) >= cap /\ ~MapHas(s, k)

Cache_set(cap, s, st, k, v, ttlArg, t, t2) ==
    LET ev == IF WouldEvict(cap, s, k)
              THEN evictOne(s, st)
              ELSE Result(s, st, Void, IF MapHas(s, k) THEN "update" ELSE "insert", <<>>)
        s2 == MapSet(ev.store, k, NewEntry(k, v, ttlArg, t, t2))
    IN Result(s2, updateSize(ev.stats, Len(s2)), Void, ev.path, ev.calls)

\* a delete that leaves the size statistic stale
Cache_deleteStaleSize(s, st, k) ==
    IF MapHas(s, k)
    THEN Result(MapDelete(s, k), st, Bool(TRUE), "deleted", <<>>)
    ELSE Result(s, st, Bool(FALSE), "absent", <<>>)

Cache_delete(s, st, k) ==
    IF MapHas(s, k)
    THEN LET s1 == MapDelete(s, k) IN Result(s1, updateSize(st, Len(s1)), Bool(TRUE), "deleted", <<>>)
    ELSE Result(s, st, Bool(FALSE), "absent", <<>>)

\* a get that reports an expired entry but leaves it in the store
Cache_getKeepingExpired(s, st, k, t, t2) ==
    IF ~MapHas(s, k)
    THEN Result(s, recordMiss(st), Undefined, "miss", <<>>)
    ELSE LET entry == MapGet(s, k) IN
         IF isExpired(entry, t)
         THEN Result(s, recordExpiration(recordMiss(st)), Undefined, "expired",
                     << <<"onExpire", k, entry>> >>)
         ELSE Result([s EXCEPT ![MapIndex(s, k)] =
                          [@ EXCEPT !.accessCount = @ + 1, !.lastAccess = t2]],
                     recordHit(st), Value(entry.value), "hit", <<>>)

\* a get whose hit does not touch the entry
Cache_getWithoutTouch(s, st, k, t, t2) ==
    IF ~MapHas(s, k)
    THEN Result(s, recordMiss(st), Undefined, "miss", <<>>)
    ELSE LET entry == MapGet(s, k) IN
         IF isExpired(entry, t)
         THEN Result(MapDelete(s, k),
                     recordExpiration(recordMiss(updateSize(st, Len(s) - 1))),
                     Undefined, "expired", << <<"onExpire", k, entry>> >>)
         ELSE Result(s, recordHit(st), Value(entry.value), "hit", <<>>)

\* a get whose hit starts the lifetime of the entry anew
Cache_getRefreshing(s, st, k, t, t2) ==
    IF ~MapHas(s, k)
    THEN Result(s, recordMiss(st), Undefined, "miss", <<>>)
    ELSE LET entry == MapGet(s, k) IN
         IF isExpired(entry, t)
         THEN LET s1 == MapDelete(s, k) IN
              Result(s1, recordExpiration(recordMiss(updateSize(st, Len(s1)))),
                     Undefined, "expired", << <<"onExpire", k, entry>> >>)
         ELSE Result([s EXCEPT ![MapIndex(s, k)] =
                          [@ EXCEPT !.accessCount = @ + 1, !.lastAccess = t2,
                                    !.timestamp = t2]],
                     recordHit(st), Value(entry.value), "hit", <<>>)

Cache_get(s, st, k, t, t2) ==
    IF ~MapHas(s, k)
    THEN Result(s, recordMiss(st), Undefined, "miss", <<>>)
    ELSE LET entry == MapGet(s, k) IN
         IF isExpired(entry, t)
         THEN LET d == Cache_delete(s, st, k) IN
              Result(d.store, recordExpiration(recordMiss(d.stats)), Undefined, "expired",
                     << <<"onExpire", k, entry>> >>)
         ELSE Result([s EXCEPT ![MapIndex(s, k)] =
                          [@ EXCEPT !.accessCount = @ + 1, !.lastAccess = t2]],
                     recordHit(st), Value(entry.value), "hit", <<>>)

\* a has that answers with the hit and miss accounting of a lookup
Cache_hasCounting(s, st, k, t) ==
    IF ~MapHas(s, k)
    THEN Result(s, recordMiss(st), Bool(FALSE), "absent", <<>>)
    ELSE IF isExpired(MapGet(s, k), t)
         THEN Result(MapDelete(s, k), recordMiss(updateSize(st, Len(s) - 1)),
                     Bool(FALSE), "expired", <<>>)
         ELSE Result(s, recordHit(st), Bool(TRUE), "present", <<>>)

Cache_has(s, st, k, t) ==
    IF ~MapHas(s, k)
    THEN Result(s, st, Bool(FALSE), "absent", <<>>)
    ELSE IF isExpired(MapGet(s, k), t)
         THEN LET d == Cache_delete(s, st, k) IN
              Result(d.store, d.stats, Bool(FALSE), "expired", <<>>)
         ELSE Result(s, st, Bool(TRUE), "present", <<>>)

RECURSIVE InvalidateScanSkipping(_, _, _, _)
\* a scan that loses the key following each deleted one
InvalidateScanSkipping(s, ks, regex, invalidatedCount) ==
    IF ks = <<>> THEN [store |-> s, count |-> invalidatedCount]
    ELSE IF RegexTest(regex, Head(ks))
         THEN InvalidateScanSkipping(MapDelete(s, Head(ks)),
                                     IF Len(ks) >= 2 THEN Tail(Tail(ks)) ELSE <<>>,
                                     regex, invalidatedCount + 1)
         ELSE InvalidateScanSkipping(s, Tail(ks), regex, invalidatedCount)

RECURSIVE InvalidateScan(_, _, _, _)
\* the for loop of invalidatePattern over store.keys(), deleting as it goes
InvalidateScan(s, ks, regex, invalidatedCount) ==
    IF ks = <<>> THEN [store |-> s, count |-> invalidatedCount]
    ELSE IF RegexTest(regex, Head(ks))
         THEN InvalidateScan(MapDelete(s, Head(ks)), Tail(ks), regex, invalidatedCount + 1)
         ELSE InvalidateScan(s, Tail(ks), regex, invalidatedCount)

\* Cache.invalidatePattern: the RegExp comes from
\* PatternMatcher.convertPatternToRegex, which takes it from the memo rc or
\* compiles it onto heap and memoizes it; then the scan and updateSize
Cache_invalidatePattern(rc, heap, s, st, p) ==
    LET c == PatternMatcher_convertPatternToRegex(rc, heap, Str(p))
        r == InvalidateScan(s, MapKeys(s), c.regexes[c.id], 0)
    IN [result |-> Result(r.store, updateSize(st, Len(r.store)), Num(r.count),
                          "scan", <<>>),
        regexCache |-> c.regexCache, regexes |-> c.regexes]

Cache_clear(s, st) ==
    Result(<<>>, reset(st), Void,
           IF s # <<>> /\ st.hits + st.misses > 0 THEN "dirty" ELSE "clean", <<>>)

\* --------------------------------------------------------------- TTLCache
Ignored(s, st, ret) == Result(s, st, ret, "destroyed", <<>>)

\* a set without the isDestroyed guard
TTLCache_setUnguarded(d, cap, s, st, k, v, ttlArg, t, t2) ==
    Cache_set(cap, s, st, k, v, ttlArg, t, t2)

TTLCache_set(d, cap, s, st, k, v, ttlArg, t, t2) ==
    IF d THEN Ignored(s, st, Void) ELSE Cache_set(cap, s, st, k, v, ttlArg, t, t2)

TTLCache_get(d, s, st, k, t, t2) ==
    IF d THEN Ignored(s, st, Undefined) ELSE Cache_get(s, st, k, t, t2)

TTLCache_has(d, s, st, k, t) ==
    IF d THEN Ignored(s, st, Bool(FALSE)) ELSE Cache_has(s, st, k, t)

\* a delete override that never reaches the engine
TTLCache_deleteNever(d, s, st, k) == Ignored(s, st, Bool(FALSE))

TTLCache_delete(d, s, st, k) ==
    IF d THEN Ignored(s, st, Bool(FALSE)) ELSE Cache_delete(s, st, k)

TTLCache_clear(d, s, st) ==
    IF d THEN Ignored(s, st, Void) ELSE Cache_clear(s, st)

RECURSIVE CleanupScanFirst(_, _, _, _)
\* a sweep that stops at the first expired entry
CleanupScanFirst(s, ks, t, cleanedCount) ==
    IF ks = <<>> THEN [store |-> s, count |-> cleanedCount]
    ELSE IF MapHas(s, Head(ks)) /\ isExpired(MapGet(s, Head(ks)), t)
         THEN [store |-> MapDelete(s, Head(ks)), count |-> cleanedCount + 1]
         ELSE CleanupScanFirst(s, Tail(ks), t, cleanedCount)

RECURSIVE CleanupScan(_, _, _, _)
\* the for loop of cleanup over the snapshot this.keys()
CleanupScan(s, ks, t, cleanedCount) ==
    IF ks = <<>> THEN [store |-> s, count |-> cleanedCount]
    ELSE IF MapHas(s, Head(ks)) /\ isExpired(MapGet(s, Head(ks)), t)
         THEN CleanupScan(MapDelete(s, Head(ks)), Tail(ks), t, cleanedCount + 1)
         ELSE CleanupScan(s, Tail(ks), t, cleanedCount)

\* a sweep that never removes anything
TTLCache_cleanupIdle(d, s, st, t) == Result(s, st, Num(0), "idle", <<>>)

TTLCache_cleanup(d, s, st, t) ==
    IF d THEN Ignored(s, st, Num(0))
    ELSE LET r == CleanupScan(s, MapKeys(s), t, 0) IN
         IF r.count > 0
         THEN Result(r.store, recordExpiration(updateSize(st, Len(r.store))),
                     Num(r.count), "swept", <<>>)
         ELSE Result(s, st, Num(0), "idle", <<>>)

\* a destroy whose clear() empties the store and resets the statistics
TTLCache_destroyClearing(s, st) ==
    LET c == Cache_clear(s, st) IN
    Result(c.store, c.stats, Void, "first", <<>>)

\* destroy() after its isDestroyed guard: the flag is set before this.clear()
\* runs, and this.clear() is the override of TTLCache
TTLCache_destroy(s, st) ==
    LET c == TTLCache_clear(TRUE, s, st) IN
    Result(c.store, c.stats, Void, "first", <<>>)

\* ------------------------------------------------------------ CacheManager
\* A config is undefined or an object whose maxSize and defaultTTL are each
\* omitted (<<>>) or a number (<<n>>).
NoConfig == [given |-> FALSE, maxSize |-> <<>>, defaultTTL |-> <<>>]
Config(m, t) == [given |-> TRUE, maxSize |-> m, defaultTTL |-> t]

\* new Cache(config): config.maxSize || 100, config.defaultTTL || 5 * 60 * 1000
Cache_new(config) ==
    [maxSize |-> IF config.maxSize # <<>> /\ config.maxSize[1] # 0
                 THEN config.maxSize[1] ELSE 100,
     defaultTTL |-> IF config.defaultTTL # <<>> /\ config.defaultTTL[1] # 0
                    THEN config.defaultTTL[1] ELSE 5 * 60 * 1000,
     store |-> <<>>, stats |-> ZeroStats]

\* a getCache that constructs a cache from the config of every call
CacheManager_getCacheReplacing(cs, heap, name, config) ==
    [caches |-> MapSet(cs, name, [key |-> name, cache |-> Len(heap) + 1]),
     instances |-> Append(heap, Cache_new(config)),
     id |-> Len(heap) + 1, path |-> "created"]

\* CacheManager.getCache over the registry cs and the Cache objects heap
CacheManager_getCache(cs, heap, name, config) ==
    IF ~MapHas(cs, name)
    THEN [caches |-> MapSet(cs, name, [key |-> name, cache |-> Len(heap) + 1]),
          instances |-> Append(heap, Cache_new(config)),
          id |-> Len(heap) + 1, path |-> "created"]
    ELSE [caches |-> cs, instances |-> heap, id |-> MapGet(cs, name).cache,
          path |-> "existing"]

\* a deleteCache that unregisters the cache with its entries still in it
CacheManager_deleteCacheUncleared(cs, heap, name) ==
    IF MapHas(cs, name)
    THEN [caches |-> MapDelete(cs, name), instances |-> heap, ret |-> TRUE]
    ELSE [caches |-> cs, instances |-> heap, ret |-> FALSE]

CacheManager_deleteCache(cs, heap, name) ==
    IF MapHas(cs, name)
    THEN LET id == MapGet(cs, name).cache
             c == Cache_clear(heap[id].store, heap[id].stats)
         IN [caches |-> MapDelete(cs, name),
             instances |-> [heap EXCEPT ![id].store = c.store, ![id].stats = c.stats],
             ret |-> TRUE]
    ELSE [caches |-> cs, instances |-> heap, ret |-> FALSE]

\* a clearAll that forgets the names and leaves the caches as they are
CacheManager_clearAllUnregistering(cs, heap) == [caches |-> <<>>, instances |-> heap]

\* this.caches.forEach((cache) => cache.clear()); this.caches.clear()
CacheManager_clearAll(cs, heap) ==
    [caches |-> <<>>,
     instances |-> [id \in 1..Len(heap) |->
                      IF \E i \in 1..Len(cs) : cs[i].cache = id
                      THEN [heap[id] EXCEPT !.store = <<>>, !.stats = reset(heap[id].stats)]
                      ELSE heap[id]]]

CacheManager_getCacheNames(cs) == MapKeys(cs)

\* --------------------------------------------------------------- actions
\* a call takes the cache from its state to the result r of the method
Call(name, arg, r) ==
    \E x \in {r} :
        /\ store' = x.store
        /\ stats' = x.stats
        /\ last' = [op |-> name, arg |-> arg, path |-> x.path, ret |-> x.ret,
                    calls |-> x.calls]

Fresh ==
    /\ store = <<>>
    /\ stats = ZeroStats
    /\ now = 0
    /\ isDestroyed = FALSE
    /\ cleanupInterval = TRUE
    /\ last = [op |-> "new", arg |-> <<>>, path |-> "new", ret |-> Void, calls |-> <<>>]
    /\ regexCache = <<>>
    /\ regexes = <<>>
    /\ caches = <<>>
    /\ instances = <<>>
    /\ timeouts = <<>>
    /\ microtasks = <<>>

Init ==
    /\ maxSize \in Capacities
    /\ pc = 0
    /\ Fresh

\* a call on one cache other than invalidatePattern touches neither the
\* CacheManager nor the memo of PatternMatcher
Elsewhere == UNCHANGED <<regexCache, regexes, caches, instances, timeouts, microtasks>>

Rest == UNCHANGED <<maxSize, now, isDestroyed, cleanupInterval, pc>> /\ Elsewhere

\* the readings Date.now() can give later in a call whose first reading was t
Later(t) == t..MaxTime

\* a call that reads the clock twice: name(arg) with the result r[t2] for a
\* second reading t2; the clock stands at the last reading the call took,
\* which is the first one on a path that does not read again
TimedCall(name, arg, r, twice) ==
    \E t2 \in Later(now) :
        \E x \in {r[t2]} :
            /\ x.path \notin twice => t2 = now
            /\ now' = t2
            /\ Call(name, arg, x)

\* the branches of set and get that read Date.now() a second time
SetReadsTwice == {"insert", "update", "evict", "noevict"}
GetReadsTwice == {"hit"}

SetCall(k, v, ttlArg) ==
    /\ WouldEvict(maxSize, store, k) => stats.evictions < MaxEvictions
    /\ LET r == [t2 \in Later(now) |->
                   TTLCache_set(isDestroyed, maxSize, store, stats, k, v, ttlArg, now, t2)]
       IN TimedCall("set", k, r, SetReadsTwice)
    /\ UNCHANGED <<maxSize, isDestroyed, cleanupInterval, pc>>
    /\ Elsewhere

GetCall(k) ==
    /\ stats.hits + stats.misses < MaxGets
    /\ LET r == [t2 \in Later(now) |-> TTLCache_get(isDestroyed, store, stats, k, now, t2)]
       IN TimedCall("get", k, r, GetReadsTwice)
    /\ UNCHANGED <<maxSize, isDestroyed, cleanupInterval, pc>>
    /\ Elsewhere

HasCall(k) == Call("has", k, TTLCache_has(isDestroyed, store, stats, k, now)) /\ Rest

DeleteCall(k) == Call("delete", k, TTLCache_delete(isDestroyed, store, stats, k)) /\ Rest

\* invalidatePattern is not overridden by TTLCache: it runs on a destroyed
\* cache as well, and leaves its RegExp in the memo of PatternMatcher
InvalidateCall(p) ==
    /\ \E c \in {Cache_invalidatePattern(regexCache, regexes, store, stats, p)} :
          /\ Call("invalidatePattern", p, c.result)
          /\ regexCache' = c.regexCache
          /\ regexes' = c.regexes
    /\ UNCHANGED <<maxSize, now, isDestroyed, cleanupInterval, pc,
                   caches, instances, timeouts, microtasks>>

Set == \E k \in Keys, a \in SetArgs : SetCall(k, a.value, a.ttl)

Get == \E k \in Keys : GetCall(k)

Has == \E k \in Keys : HasCall(k)

Delete == \E k \in Keys : DeleteCall(k)

InvalidatePattern == InvalidateCall(<<"a", "*">>)

Clear == Call("clear", <<>>, TTLCache_clear(isDestroyed, store, stats)) /\ Rest

\* the setInterval callback: if (!this.isDestroyed) this.cleanup()
Cleanup ==
    /\ cleanupInterval
    /\ Call("cleanup", <<>>, TTLCache_cleanup(isDestroyed, store, stats, now))
    /\ Rest

\* a destroy whose second call brings the cache back to life
DestroyReviving ==
    IF isDestroyed
    THEN /\ isDestroyed' = FALSE
         /\ cleanupInterval' = TRUE
         /\ last' = [op |-> "destroy", arg |-> <<>>, path |-> "again", ret |-> Void,
                    calls |-> <<>>]
         /\ UNCHANGED <<maxSize, store, stats, now, pc>>
         /\ Elsewhere
    ELSE /\ isDestroyed' = TRUE
         /\ cleanupInterval' = FALSE
         /\ Call("destroy", <<>>, TTLCache_destroy(store, stats))
         /\ UNCHANGED <<maxSize, now, pc>>
         /\ Elsewhere

Destroy ==
    IF isDestroyed
    THEN /\ last' = [op |-> "destroy", arg |-> <<>>, path |-> "again", ret |-> Void,
                    calls |-> <<>>]
         /\ UNCHANGED <<maxSize, store, stats, now, isDestroyed, cleanupInterval, pc>>
         /\ Elsewhere
    ELSE /\ isDestroyed' = TRUE
         /\ cleanupInterval' = FALSE
         /\ Call("destroy", <<>>, TTLCache_destroy(store, stats))
         /\ UNCHANGED <<maxSize, now, pc>>
         /\ Elsewhere

Tick ==
    /\ now < MaxTime
    /\ now' = now + 1
    /\ UNCHANGED <<maxSize, store, stats, isDestroyed, cleanupInterval, last, pc>>
    /\ Elsewhere

\* A TTLCache in use: every call, with invalidatePattern("a*"), the sweeps
\* of the timer, and destroy().
Next ==
    \/ Set \/ Get \/ Has \/ Delete \/ InvalidatePattern \/ Clear
    \/ Cleanup \/ Destroy \/ Tick

Spec == Init /\ [][Next]_vars

\* The methods TTLCache defines or overrides, the sweeps of the timer and
\* destroy(), without the inherited invalidatePattern.
NextCalls ==
    \/ Set \/ Get \/ Has \/ Delete \/ Clear
    \/ Cleanup \/ Destroy \/ Tick

SpecCalls == Init /\ [][NextCalls]_vars

\* The callers of invalidatePattern: a cache that holds every key is filled
\* and invalidated with every pattern, sharing the memo of PatternMatcher.
\* a cache constructed with room for every key
InitRoomy ==
    /\ maxSize = Cardinality(Keys)
    /\ pc = 0
    /\ Fresh

InvalidateAny ==
    \E p \in Patterns :
        /\ ~MapHas(regexCache, Str(p)) => Len(regexes) < MaxRegexes
        /\ InvalidateCall(p)

NextInvalidate == Set \/ InvalidateAny

SpecInvalidate == InitRoomy /\ [][NextInvalidate]_vars

\* The caller of the eviction test: set(a), set(b), get(a), set(c) on a cache
\* with maxSize 2 and the default ttl, the clock free to advance between the
\* calls but not far enough for an entry to expire.
KeyA == <<"a">>
KeyB == <<"b">>
KeyC == <<"c">>

InitLRU ==
    /\ maxSize = 2
    /\ pc = 1
    /\ Fresh

ScriptSet(at, k) ==
    /\ pc = at
    /\ pc' = at + 1
    /\ \E v \in Values, t2 \in now..DefaultTTL :
          /\ now' = t2
          /\ Call("set", k, Cache_set(maxSize, store, stats, k, v, <<>>, now, t2))
    /\ UNCHANGED <<maxSize, isDestroyed, cleanupInterval>>
    /\ Elsewhere

SetA == ScriptSet(1, KeyA)
SetB == ScriptSet(2, KeyB)
GetA ==
    /\ pc = 3
    /\ pc' = 4
    /\ \E t2 \in now..DefaultTTL :
          /\ now' = t2
          /\ Call("get", KeyA, Cache_get(store, stats, KeyA, now, t2))
    /\ UNCHANGED <<maxSize, isDestroyed, cleanupInterval>>
    /\ Elsewhere
SetC == ScriptSet(4, KeyC)

TickLRU ==
    /\ now < DefaultTTL
    /\ Tick

NextLRU == SetA \/ SetB \/ GetA \/ SetC \/ TickLRU

SpecLRU == InitLRU /\ [][NextLRU]_vars

\* The callers of set with every kind of ttl argument: omitted, 0, positive
\* and negative (the parameter is `ttl?: number` and set does not validate it).
TtlArgs == { <<>>, <<0>>, <<1>>, <<-1>> }

SetTTLCall(k, v, ttlArg) ==
    /\ WouldEvict(maxSize, store, k) => stats.evictions < MaxEvictions
    /\ LET r == [t2 \in Later(now) |-> Cache_set(maxSize, store, stats, k, v, ttlArg, now, t2)]
       IN TimedCall("set", k, r, SetReadsTwice)
    /\ UNCHANGED <<maxSize, isDestroyed, cleanupInterval, pc>>
    /\ Elsewhere

SetTTL == \E k \in Keys, v \in Values, ttlArg \in TtlArgs : SetTTLCall(k, v, ttlArg)

GetTTL ==
    /\ stats.hits + stats.misses < MaxGets
    /\ \E k \in Keys :
          LET r == [t2 \in Later(now) |-> Cache_get(store, stats, k, now, t2)]
          IN TimedCall("get", k, r, GetReadsTwice)
    /\ UNCHANGED <<maxSize, isDestroyed, cleanupInterval, pc>>
    /\ Elsewhere

NextTTLArg == SetTTL \/ GetTTL \/ Tick

SpecTTLArg == Init /\ [][NextTTLArg]_vars

\* The timer of a TTLCache seen from the event loop: callers set entries and
\* may destroy the cache, the clock advances, and the callback of setInterval
\* runs between calls.  A callback may already be queued when destroy()
\* cancels the timer, so it can run in either lifecycle state.
\* a callback that sweeps whatever the lifecycle state
TimerCallbackUnguarded ==
    /\ Call("cleanup", <<>>, TTLCache_cleanup(FALSE, store, stats, now))
    /\ Rest

\* () => { if (!this.isDestroyed) this.cleanup() }
TimerCallback ==
    /\ Call("cleanup", <<>>,
            IF ~isDestroyed
            THEN TTLCache_cleanup(isDestroyed, store, stats, now)
            ELSE Ignored(store, stats, Num(0)))
    /\ Rest

NextTimer == Set \/ Tick \/ Destroy \/ TimerCallback

SpecTimer == Init /\ [][NextTimer]_vars

\* the interval keeps firing: a callback that has something to do runs
SpecTimerFair == SpecTimer /\ WF_vars(TimerCallback)

\* One call of PatternMatcher.matchesPattern on a freshly loaded module, for
\* every key and pattern up to MaxGlobLen characters over a letter, a line
\* terminator, the wildcard and one character that is special in a RegExp,
\* and for every key over a letter and the four line terminators.
SeqsUpTo(S, n) == UNION { [1..m -> S] : m \in 0..n }

InitGlob ==
    /\ maxSize = 1
    /\ pc = 1
    /\ Fresh

MatchCall(k, p) ==
    /\ pc = 1
    /\ pc' = 2
    /\ \E r \in {PatternMatcher_matchesPattern(regexCache, regexes, k, Str(p))} :
          /\ regexCache' = r.regexCache
          /\ regexes' = r.regexes
          /\ last' = [op |-> "matchesPattern", arg |-> [key |-> k, pattern |-> p],
                      path |-> r.path, ret |-> Bool(r.result), calls |-> <<>>]
    /\ UNCHANGED <<maxSize, store, stats, now, isDestroyed, cleanupInterval,
                   caches, instances, timeouts, microtasks>>

Match ==
    \E special \in EscapeSet :
        \E k \in SeqsUpTo({"a", special, "\n"}, MaxGlobLen),
           p \in SeqsUpTo({"a", special, "*"}, MaxGlobLen) : MatchCall(k, p)

\* keys over a letter and every line terminator against the wildcard
MatchTerminators ==
    \E k \in SeqsUpTo({"a"} \cup LineTerminators, MaxGlobLen),
       p \in SeqsUpTo({"a", "*"}, MaxGlobLen) : MatchCall(k, p)

NextGlob == Match \/ MatchTerminators

SpecGlob == InitGlob /\ [][NextGlob]_vars

\* The callers of the memo of PatternMatcher: convertPatternToRegex with two
\* patterns and with the non-string arguments, and clearCache.
MemoInputs == { Str(<<>>), Str(<<"a", "*">>) } \cup NonStrings
NoInput == [type |-> "none", chars |-> <<>>]

ConvertCall(pattern) ==
    /\ (pattern.type = "string" /\ ~MapHas(regexCache, pattern))
       => Len(regexes) < MaxRegexes
    /\ \E r \in {PatternMatcher_convertPatternToRegex(regexCache, regexes, pattern)} :
          /\ regexCache' = r.regexCache
          /\ regexes' = r.regexes
          /\ last' = [op |-> "convertPatternToRegex", arg |-> pattern, path |-> r.path,
                      ret |-> IF r.threw THEN Threw ELSE Ref(r.id), calls |-> <<>>]
    /\ UNCHANGED <<maxSize, store, stats, now, isDestroyed, cleanupInterval, pc,
                   caches, instances, timeouts, microtasks>>

Convert == \E pattern \in MemoInputs : ConvertCall(pattern)

ClearCache ==
    /\ regexCache' = PatternMatcher_clearCache(regexCache)
    /\ last' = [op |-> "clearCache", arg |-> NoInput, path |-> "cleared", ret |-> Void,
                calls |-> <<>>]
    /\ UNCHANGED <<maxSize, store, stats, now, isDestroyed, cleanupInterval, pc,
                   regexes, caches, instances, timeouts, microtasks>>

InitMemo ==
    /\ maxSize = 1
    /\ pc = 0
    /\ Fresh

NextMemo == Convert \/ ClearCache

SpecMemo == InitMemo /\ [][NextMemo]_vars

\* The callers of the CacheManager singleton: getCache with and without a
\* config, deleteCache, clearAll, and set on any cache a caller still holds,
\* while the clock advances.
Names == { "users", "posts" }
Configs == { NoConfig, Config(<<2>>, <<1>>) }

ManagerCall(name, arg, path, ret) ==
    /\ last' = [op |-> name, arg |-> arg, path |-> path, ret |-> ret, calls |-> <<>>]
    /\ UNCHANGED <<maxSize, store, stats, now, isDestroyed, cleanupInterval, pc,
                   regexCache, regexes, timeouts, microtasks>>

GetCacheCall(name, config) ==
    /\ ~MapHas(caches, name) => Len(instances) < MaxInstances
    /\ \E r \in {CacheManager_getCache(caches, instances, name, config)} :
          /\ caches' = r.caches
          /\ instances' = r.instances
          /\ ManagerCall("getCache", [name |-> name, config |-> config], r.path, Ref(r.id))

GetCache == \E name \in Names, config \in Configs : GetCacheCall(name, config)

DeleteCacheCall(name) ==
    \E r \in {CacheManager_deleteCache(caches, instances, name)} :
        /\ caches' = r.caches
        /\ instances' = r.instances
        /\ ManagerCall("deleteCache", [name |-> name, config |-> NoConfig],
                       IF r.ret THEN "deleted" ELSE "absent", Bool(r.ret))

DeleteCache == \E name \in Names : DeleteCacheCall(name)

ClearAll ==
    \E r \in {CacheManager_clearAll(caches, instances)} :
        /\ caches' = r.caches
        /\ instances' = r.instances
        /\ ManagerCall("clearAll", [name |-> "", config |-> NoConfig], "cleared", Void)

\* the first cache.set("a", "v1", 1) on a cache obtained from getCache
\* earlier, registered or not any more; the clock stands at the second
\* reading of set
ManagedSet ==
    \E id \in 1..Len(instances), t2 \in Later(now) :
        /\ instances[id].store = <<>>
        /\ \E r \in {Cache_set(instances[id].maxSize, instances[id].store,
                               instances[id].stats, <<"a">>, "v1", <<1>>, now, t2)} :
              /\ instances' = [instances EXCEPT ![id].store = r.store,
                                                ![id].stats = r.stats]
              /\ last' = [op |-> "set", arg |-> [name |-> "", config |-> NoConfig],
                          path |-> r.path, ret |-> Ref(id), calls |-> r.calls]
        /\ now' = t2
        /\ UNCHANGED <<maxSize, store, stats, isDestroyed, cleanupInterval, pc,
                       regexCache, regexes, caches, timeouts, microtasks>>

InitManager ==
    /\ maxSize = 1
    /\ pc = 0
    /\ Fresh

NextManager == GetCache \/ DeleteCache \/ ClearAll \/ ManagedSet \/ Tick

SpecManager == InitManager /\ [][NextManager]_vars

\* A caller of one active TTLCache with room for every key who counts the
\* get calls made since the cache was constructed or last cleared: every
\* method on every key with invalidatePattern("a*"), the sweeps of the timer,
\* and up to MaxReads get calls between two clear().
ReadGet ==
    /\ pc < MaxReads
    /\ pc' = pc + 1
    /\ \E k \in Keys :
          LET r == [t2 \in Later(now) |-> TTLCache_get(isDestroyed, store, stats, k, now, t2)]
          IN TimedCall("get", k, r, GetReadsTwice)
    /\ UNCHANGED <<maxSize, isDestroyed, cleanupInterval>>
    /\ Elsewhere

ReadClear ==
    /\ pc' = 0
    /\ Call("clear", <<>>, TTLCache_clear(isDestroyed, store, stats))
    /\ UNCHANGED <<maxSize, now, isDestroyed, cleanupInterval>>
    /\ Elsewhere

ReadInvalidate == InvalidatePattern

NextReads ==
    \/ Set \/ ReadGet \/ Has \/ Delete \/ ReadInvalidate \/ ReadClear
    \/ Cleanup \/ Tick

SpecReads == InitRoomy /\ [][NextReads]_vars

\* The callers of ErrorHandler.withTimeout: up to MaxCalls calls, each with
\* a promise that is pending or already settled and a delay of 0 or more;
\* a pending promise settles, the await of a call resumes in a microtask
\* after its wrapped promise settled or its timer fired, and a timer fires
\* once its delay has elapsed on the clock of the event loop and the
\* microtask queue is empty, one callback at a time.
PromiseStates ==
    { PendingPromise, Fulfilled, Rejected("CacheError", "CUSTOM"),
      Rejected("Error", ""), Rejected("other", "") }
TimeoutMs == { -1, 1, 2 }

TimeoutStep(name, i) ==
    /\ last' = [op |-> name, arg |-> i, path |-> timeouts'[i].by,
                ret |-> Void, calls |-> <<>>]
    /\ UNCHANGED <<maxSize, store, stats, now, isDestroyed, cleanupInterval, pc,
                   regexCache, regexes, caches, instances>>

\* the call returns at its await; the reaction of an already settled
\* promise is queued at once
WithTimeout ==
    /\ Len(timeouts) < MaxCalls
    /\ \E promise \in PromiseStates, timeoutMs \in TimeoutMs :
          /\ timeouts' = Append(timeouts, ErrorHandler_withTimeout(promise, timeoutMs, now))
          /\ microtasks' = IF promise.state # "pending"
                           THEN Append(microtasks, Reaction(Len(timeouts) + 1, "promise"))
                           ELSE microtasks
    /\ TimeoutStep("withTimeout", Len(timeouts) + 1)

\* the owner of a wrapped promise settles it; the race reacts in a microtask
\* unless the function has resumed before
PromiseSettles ==
    \E i \in 1..Len(timeouts) :
        /\ timeouts[i].promise.state = "pending"
        /\ \E promise \in PromiseStates \ {PendingPromise} :
              timeouts' = [timeouts EXCEPT ![i].promise = promise]
        /\ microtasks' = IF timeouts[i].returned.state = "pending"
                         THEN Append(microtasks, Reaction(i, "promise"))
                         ELSE microtasks
        /\ TimeoutStep("settle", i)

\* the first microtask runs: withTimeout resumes after its await
Resume ==
    /\ microtasks # <<>>
    /\ timeouts' = [timeouts EXCEPT ![Head(microtasks).call] = Race(@, Head(microtasks).by)]
    /\ microtasks' = Tail(microtasks)
    /\ TimeoutStep("resume", Head(microtasks).call)

\* a timer callback is a task of its own: it runs when no microtask is left,
\* and the race reacts to its rejection in a microtask unless the function
\* has resumed before
TimerFires ==
    \E i \in 1..Len(timeouts) :
        /\ microtasks = <<>>
        /\ timeouts[i].timer.state = "pending"
        /\ TimerElapsed(timeouts[i].timer, now)
        /\ timeouts' = [timeouts EXCEPT ![i] = TimeoutCallback(@)]
        /\ microtasks' = IF timeouts[i].returned.state = "pending"
                         THEN Append(microtasks, Reaction(i, "timer"))
                         ELSE microtasks
        /\ TimeoutStep("timeout", i)

InitTimeout ==
    /\ maxSize = 1
    /\ pc = 0
    /\ Fresh

NextTimeout == WithTimeout \/ PromiseSettles \/ Resume \/ TimerFires \/ Tick

SpecTimeout == InitTimeout /\ [][NextTimeout]_vars

\* The four eviction strategies as functions of an entry map: the map is any
\* Map of up to MaxEntries entries whose timestamps and counters are what a
\* cache writes (clock readings and counts) and whose ttl is what a caller
\* gave to set, a number of milliseconds or Infinity for an entry that never
\* expires.
StrategyKeys == { <<>>, <<"a">>, <<"b">> }
StrategyEntries ==
    [key : StrategyKeys, value : {"v1"}, timestamp : 0..1,
     ttl : {Finite(1), Infinity}, accessCount : 0..1, lastAccess : 0..1]
EntryMaps ==
    UNION { { m \in [1..n -> StrategyEntries] :
                \A i, j \in 1..n : m[i].key = m[j].key => i = j } : n \in 0..MaxEntries }

InitStrategy ==
    /\ store \in EntryMaps
    /\ stats = updateSize(ZeroStats, Len(store))
    /\ maxSize = 100
    /\ pc = 0
    /\ now = 0
    /\ isDestroyed = FALSE
    /\ cleanupInterval = TRUE
    /\ last = [op |-> "new", arg |-> <<>>, path |-> "new", ret |-> NoKey, calls |-> <<>>]
    /\ regexCache = <<>>
    /\ regexes = <<>>
    /\ caches = <<>>
    /\ instances = <<>>
    /\ timeouts = <<>>
    /\ microtasks = <<>>

\* strategy.findKeyToEvict(entries): the map is read, never written
StrategyCall(name, r) ==
    /\ last' = [op |-> name, arg |-> <<>>, path |-> "found", ret |-> r, calls |-> <<>>]
    /\ UNCHANGED <<maxSize, store, stats, now, isDestroyed, cleanupInterval, pc>>
    /\ Elsewhere

LRU == StrategyCall("lru", LRUfindKeyToEvict(store))
LFU == StrategyCall("lfu", LFUfindKeyToEvict(store))
FIFO == StrategyCall("fifo", FIFOfindKeyToEvict(store))
TTL == StrategyCall("ttl", TTLfindKeyToEvict(store))

NextStrategy == LRU \/ LFU \/ FIFO \/ TTL

SpecStrategy == InitStrategy /\ [][NextStrategy]_vars

\* ------------------------------------------------------------------ claims
Active == ~isDestroyed

RECURSIVE GlobMatch(_, _)
\* the reference matcher: the whole key against the pattern, * standing for
\* any sequence of characters, every other character for itself
GlobMatch(p, k) ==
    IF p = <<>> THEN k = <<>>
    ELSE IF Head(p) = "*"
    THEN GlobMatch(Tail(p), k) \/ (k # <<>> /\ GlobMatch(p, Tail(k)))
    ELSE k # <<>> /\ Head(k) = Head(p) /\ GlobMatch(Tail(p), Tail(k))

\* a step that is the call `name`: a call records its name; the clock
\* advances in Tick, which changes nothing else, and within a set or a get
\* that hits, which write the entry
Does(name) == last'.op = name /\ (now' = now \/ store' # store \/ stats' # stats)

\* C1: with maxSize = N, after every set the size statistic is at most N and
\* the store holds at most N keys, the empty string being a key like any other.
CapacityInvariant == stats.size <= maxSize /\ Len(store) <= maxSize

\* C2: set(a), set(b), get(a), set(c) on a cache of maxSize 2 evicts b and
\* keeps a and c, whatever non-decreasing clock readings the four calls get.
LRUScenarioEvictsB ==
    pc = 5 => ~MapHas(store, KeyB) /\ MapHas(store, KeyA) /\ MapHas(store, KeyC)

\* C3: set on a key that is present while the store holds maxSize entries
\* leaves evictions unchanged, calls no onEvict, removes no key, leaves every
\* other entry as it was and replaces the key's value by the new one.
UpdateDoesNotEvict ==
    [][(Does("set") /\ Active /\ Len(store) >= maxSize /\ MapHas(store, last'.arg))
       => \A a \in SetArgs :
            SetCall(last'.arg, a.value, a.ttl)
            => /\ stats'.evictions = stats.evictions
               /\ last'.calls = <<>>
               /\ MapKeys(store') = MapKeys(store)
               /\ \A j \in MapKeySet(store) \ {last'.arg} :
                     MapGet(store', j) = MapGet(store, j)
               /\ MapGet(store', last'.arg).value = a.value]_vars

UpdateAtCapacityDone ==
    /\ last.op = "set"
    /\ last.path = "update"
    /\ maxSize = 2
    /\ Len(store) = 2
    /\ MapGet(store, last.arg).value = "v2"

\* C4: set with ttl T > 0 at time t0 writes an entry with createdAt t0 and ttl
\* T, no call but a set of that key changes the createdAt or ttl of a stored
\* entry, and get on a stored entry returns its value when
\* now - createdAt <= ttl and reports not-found (removing it) when
\* now - createdAt > ttl.
TTLCorrectness ==
    [][/\ (Does("set") /\ Active)
          => \A a \in SetArgs :
               (a.ttl # <<>> /\ a.ttl[1] > 0 /\ SetCall(last'.arg, a.value, a.ttl))
               => /\ MapGet(store', last'.arg).timestamp = now
                  /\ MapGet(store', last'.arg).ttl = a.ttl[1]
                  /\ MapGet(store', last'.arg).value = a.value
       /\ (Does("get") /\ Active /\ MapHas(store, last'.arg))
          => LET e == MapGet(store, last'.arg) IN
             IF now - e.timestamp <= e.ttl
             THEN last'.ret = Value(e.value) /\ MapHas(store', last'.arg)
             ELSE last'.ret = Undefined /\ ~MapHas(store', last'.arg)
       /\ \A k \in MapKeySet(store) \cap MapKeySet(store') :
            ~(Does("set") /\ last'.arg = k)
            => /\ MapGet(store', k).timestamp = MapGet(store, k).timestamp
               /\ MapGet(store', k).ttl = MapGet(store, k).ttl]_vars

GetAtExactTTL ==
    /\ last.op = "get"
    /\ last.path = "hit"
    /\ MapHas(store, last.arg)
    /\ LET e == MapGet(store, last.arg) IN
          /\ e.lastAccess = now
          /\ now - e.timestamp = e.ttl
          /\ last.ret = Value(e.value)

\* C5: invalidatePattern(p) removes exactly the stored keys that
\* matchesPattern(k, p) accepts, returns how many it removed, leaves the other
\* entries as they were and in place, and sets size to the remaining key count.
InvalidationExact ==
    [][Does("invalidatePattern")
       => LET p == last'.arg IN
          /\ store' = SelectSeq(store, LAMBDA e : ~matchesPattern(e.key, p))
          /\ last'.ret = Num(Cardinality({ k \in MapKeySet(store) : matchesPattern(k, p) }))
          /\ stats'.size = Cardinality(MapKeySet(store'))]_vars

InvalidatedSomeKeptSome ==
    /\ last.op = "invalidatePattern"
    /\ last.ret.n >= 1
    /\ store # <<>>

\* C6: after clear() on an active cache the store is empty and the statistics
\* are {size 0, hits 0, misses 0, evictions 0, expirations 0}.
ClearResetsAll ==
    (last.op = "clear" /\ last.path # "destroyed")
    => (MapKeys(store) = <<>> /\ stats = ZeroStats)

ClearedDirtyCache == last.op = "clear" /\ last.path = "dirty"

\* C7: after destroy() on an active TTLCache the cache holds no entries:
\* keys() is empty and the size statistic is 0.
DestroyEmptiesCache ==
    (last.op = "destroy" /\ last.path = "first")
    => (MapKeys(store) = <<>> /\ stats.size = 0)

\* C8: on a destroyed TTLCache set, get, has, delete and clear change neither
\* the store nor any statistic; get returns undefined, has and delete false.
DestroyedCallsAreInert ==
    [][(isDestroyed /\ now' = now /\ last'.op \in {"set", "get", "has", "delete", "clear"})
       => /\ store' = store
          /\ stats' = stats
          /\ last'.calls = <<>>
          /\ last'.op = "get" => last'.ret = Undefined
          /\ last'.op \in {"has", "delete"} => last'.ret = Bool(FALSE)]_vars

CalledAfterDestroy ==
    /\ isDestroyed
    /\ last.op = "set"
    /\ last.path = "destroyed"

\* C9: a cleanup sweep of an active TTLCache removes every entry with
\* now - createdAt > ttl and no other, leaves the surviving entries as they
\* were (accessCount and lastAccess included) and leaves hits and misses alone.
SweepRemovesExactlyExpired ==
    [][(Does("cleanup") /\ Active)
       => /\ store' = SelectSeq(store, LAMBDA e : ~(now - e.timestamp > e.ttl))
          /\ stats'.hits = stats.hits
          /\ stats'.misses = stats.misses]_vars

SweptSomeKeptSome ==
    /\ last.op = "cleanup"
    /\ last.ret.n >= 1
    /\ store # <<>>

\* C10: a sweep that removes n >= 1 entries adds exactly n to expirations and
\* sets size to the remaining key count; one that removes nothing changes no
\* statistic.
SweepCountsEachExpiration ==
    [][(Does("cleanup") /\ Active)
       => LET n == Len(store) - Len(store') IN
          /\ stats'.expirations = stats.expirations + n
          /\ n >= 1 => stats'.size = Len(store')
          /\ n = 0 => stats' = stats]_vars

\* C11: set on a key that is not present while the store holds exactly maxSize
\* entries removes exactly one stored entry, adds exactly 1 to evictions,
\* calls onEvict once with the removed key and its entry, and leaves maxSize
\* entries in the store, the empty string being a key like any other.
FullInsertEvictsExactlyOne ==
    [][(Does("set") /\ Active /\ Len(store) = maxSize /\ ~MapHas(store, last'.arg))
       => /\ Len(store') = maxSize
          /\ stats'.evictions = stats.evictions + 1
          /\ Len(last'.calls) = 1
          /\ last'.calls[1][1] = "onEvict"
          /\ MapHas(store, last'.calls[1][2])
          /\ last'.calls[1][3] = MapGet(store, last'.calls[1][2])
          /\ MapKeySet(store') =
                (MapKeySet(store) \ {last'.calls[1][2]}) \cup {last'.arg}]_vars

\* C12: get on a stored entry that is expired removes it, adds exactly 1 to
\* misses and to expirations, leaves hits and evictions alone, calls onExpire
\* once with the key and the entry, and returns undefined.
GetExpiredRemovesAndCounts ==
    [][(Does("get") /\ Active /\ MapHas(store, last'.arg)
          /\ isExpired(MapGet(store, last'.arg), now))
       => /\ store' = MapDelete(store, last'.arg)
          /\ stats'.misses = stats.misses + 1
          /\ stats'.expirations = stats.expirations + 1
          /\ stats'.hits = stats.hits
          /\ stats'.evictions = stats.evictions
          /\ last'.calls = << <<"onExpire", last'.arg, MapGet(store, last'.arg)>> >>
          /\ last'.ret = Undefined]_vars

GotExpiredEntry ==
    /\ last.op = "get"
    /\ last.path = "expired"
    /\ last.ret = Undefined
    /\ stats.misses = 1
    /\ stats.expirations >= 1
    /\ ~MapHas(store, last.arg)

\* C13: get on a stored entry that is not expired returns its value, adds
\* exactly 1 to its accessCount, sets its lastAccess to the clock reading, adds
\* exactly 1 to hits, and changes no other entry and no other counter.
GetHitTouchesOnlyItsEntry ==
    [][(Does("get") /\ Active /\ MapHas(store, last'.arg)
          /\ ~isExpired(MapGet(store, last'.arg), now))
       => LET k == last'.arg
              e == MapGet(store, k)
          IN /\ last'.ret = Value(e.value)
             /\ MapKeys(store') = MapKeys(store)
             /\ MapGet(store', k) =
                   [e EXCEPT !.accessCount = e.accessCount + 1, !.lastAccess = now']
             /\ \A j \in MapKeySet(store) \ {k} : MapGet(store', j) = MapGet(store, j)
             /\ stats' = [stats EXCEPT !.hits = stats.hits + 1]]_vars

GotHitBesideAnotherEntry ==
    /\ last.op = "get"
    /\ last.path = "hit"
    /\ Len(store) = 2
    /\ stats.hits = 1
    /\ MapGet(store, last.arg).accessCount = 1
    /\ MapGet(store, last.arg).lastAccess = now
    /\ MapGet(store, last.arg).timestamp < now

\* C14: has returns true exactly when the key is stored and not expired; an
\* expired entry is removed and size follows; hits and misses never change and
\* no entry's accessCount or lastAccess changes.
HasChecksWithoutCounting ==
    [][(Does("has") /\ Active)
       => LET k == last'.arg
              live == MapHas(store, k) /\ ~isExpired(MapGet(store, k), now)
          IN /\ last'.ret = Bool(live)
             /\ store' = IF MapHas(store, k) /\ ~live THEN MapDelete(store, k) ELSE store
             /\ stats'.size = Len(store')
             /\ stats'.hits = stats.hits
             /\ stats'.misses = stats.misses
             /\ \A j \in MapKeySet(store') :
                   /\ MapGet(store', j).accessCount = MapGet(store, j).accessCount
                   /\ MapGet(store', j).lastAccess = MapGet(store, j).lastAccess]_vars

HasFoundExpiredEntry ==
    /\ last.op = "has"
    /\ last.path = "expired"
    /\ last.ret = Bool(FALSE)
    /\ ~MapHas(store, last.arg)
    /\ Len(store) = 1

\* C15: whenever get or has finds a stored entry expired and removes it,
\* onExpire is called exactly once with that key and entry; onExpire is never
\* called for an entry that is not expired.
LazyExpirationCallsOnExpire ==
    [][(Active /\ (Does("get") \/ Does("has")))
       => LET k == last'.arg IN
          IF MapHas(store, k) /\ isExpired(MapGet(store, k), now)
          THEN /\ ~MapHas(store', k)
               /\ last'.calls = << <<"onExpire", k, MapGet(store, k)>> >>
          ELSE last'.calls = <<>>]_vars

\* C16: delete returns true and removes the entry exactly when the key is
\* stored, expired or not, and otherwise returns false and changes nothing; it
\* never changes hits, misses, evictions, expirations or another key, and size
\* is the key count afterwards.
DeleteRemovesIffPresent ==
    [][(Does("delete") /\ Active)
       => LET k == last'.arg IN
          /\ last'.ret = Bool(MapHas(store, k))
          /\ store' = SelectSeq(store, LAMBDA e : e.key # k)
          /\ ~MapHas(store, k) => stats' = stats
          /\ stats' = [stats EXCEPT !.size = stats'.size]
          /\ stats'.size = Cardinality(MapKeySet(store'))
          /\ last'.calls = <<>>]_vars

DeletedOneOfTwo ==
    /\ last.op = "delete"
    /\ last.ret = Bool(TRUE)
    /\ Len(store) = 1
    /\ stats.size = 1
    /\ store[1].key # last.arg
    /\ now = MaxTime

\* C17: set stores an entry whose ttl is the ttl argument whenever one is
\* given, 0 included, and config.defaultTTL only when the argument is omitted,
\* with createdAt = lastAccess = now and accessCount = 0, for a new key and
\* for an overwritten one alike.
SetStoresGivenTTL ==
    [][Does("set")
       => \A v \in Values, ttlArg \in TtlArgs :
            SetTTLCall(last'.arg, v, ttlArg)
            => LET e == MapGet(store', last'.arg) IN
               /\ e.ttl = (IF ttlArg # <<>> THEN ttlArg[1] ELSE DefaultTTL)
               /\ e.timestamp = now
               /\ e.lastAccess = e.timestamp
               /\ e.accessCount = 0
               /\ e.value = v]_vars

\* C18: between operations the size statistic equals the number of keys in
\* the store, under every sequence of set, get, has, delete,
\* invalidatePattern, clear and destroy with cleanup sweeps in between.
SizeMirrorsStore == stats.size = Cardinality(MapKeySet(store)) /\ stats.size = Len(store)

SweptWithSizeInStep ==
    /\ last.op = "cleanup"
    /\ last.path = "swept"
    /\ Len(store) = 1
    /\ stats.size = 1
    /\ stats.expirations >= 1

\* C19: across every call or sweep other than clear(), each of hits, misses,
\* evictions and expirations is at least what it was before the step.
CountersNeverDecrease ==
    [][~Does("clear")
       => /\ stats'.hits >= stats.hits
          /\ stats'.misses >= stats.misses
          /\ stats'.evictions >= stats.evictions
          /\ stats'.expirations >= stats.expirations]_vars

DestroyedWithCountersKept ==
    /\ last.op = "destroy"
    /\ last.path = "first"
    /\ stats.hits + stats.misses = 1
    /\ stats.evictions = 1
    /\ stats.expirations >= 1

\* C20: in every reachable state every stored entry has ttl >= 0, whatever
\* ttl arguments set was called with.
StoredTTLNonNegative == \A i \in 1..Len(store) : store[i].ttl >= 0

\* C21: a TTLCache starts active, destroy() makes it destroyed and nothing
\* makes it active again; a destroy() on a destroyed cache changes nothing, and
\* the sweep timer is cancelled once, by the first destroy(): it is set exactly
\* while the cache is active.
DestroyIsOneWayAndIdempotent ==
    [][/\ isDestroyed => isDestroyed'
       /\ (isDestroyed /\ Does("destroy"))
          => UNCHANGED <<store, stats, isDestroyed, cleanupInterval>>
       /\ cleanupInterval' # cleanupInterval
          => /\ ~isDestroyed /\ isDestroyed'
             /\ last'.op = "destroy" /\ last'.path = "first"
             /\ cleanupInterval /\ ~cleanupInterval'
       /\ cleanupInterval' <=> ~isDestroyed']_vars

DestroyedTwice ==
    /\ last.op = "destroy"
    /\ last.path = "again"
    /\ isDestroyed
    /\ ~cleanupInterval
    /\ store # <<>>

\* C23: on an active TTLCache every set, get, has, delete and clear call
\* returns the value, leaves the store and statistics and makes the callbacks
\* of the same call on a plain Cache in the same state with the same maxSize
\* and defaultTTL, so that equal call sequences without sweeps stay equal.
ActiveTTLCacheActsAsCache ==
    [][(Active /\ last'.op \in {"set", "get", "has", "delete", "clear"} /\ Does(last'.op))
       => LET k == last'.arg
              Same(r) == \E x \in {r} : /\ store' = x.store
                                        /\ stats' = x.stats
                                        /\ last'.ret = x.ret
                                        /\ last'.calls = x.calls
          IN /\ last'.op = "set"
                => \A a \in SetArgs :
                     SetCall(k, a.value, a.ttl)
                     => Same(Cache_set(maxSize, store, stats, k, a.value, a.ttl, now, now'))
             /\ last'.op = "get" => Same(Cache_get(store, stats, k, now, now'))
             /\ last'.op = "has" => Same(Cache_has(store, stats, k, now))
             /\ last'.op = "delete" => Same(Cache_delete(store, stats, k))
             /\ last'.op = "clear" => Same(Cache_clear(store, stats))]_vars

ActiveDeleteDelegated ==
    /\ Active
    /\ last.op = "delete"
    /\ last.path = "deleted"
    /\ last.ret = Bool(TRUE)
    /\ stats.hits + stats.misses = 1

\* C22: once destroy() has returned, a timer callback that still runs changes
\* neither the store nor the statistics, wherever it falls among the calls.
NoSweepAfterDestroy ==
    [][(isDestroyed /\ Does("cleanup")) => (store' = store /\ stats' = stats)]_vars

StaleCallbackFoundExpiredEntry ==
    /\ isDestroyed
    /\ last.op = "cleanup"
    /\ last.path = "destroyed"
    /\ \E i \in 1..Len(store) : isExpired(store[i], now)

\* C24: while the timer of an active TTLCache keeps firing, an expired entry
\* does not stay in the store: it is removed without a get or has on it (or
\* the cache is destroyed); and right after a sweep has(k) is false for every
\* key whose entry was expired, as for set(k, v, 300) and the sweep at 500 ms.
ExpiredEntriesAreSwept ==
    /\ \A k \in Keys :
          (Active /\ MapHas(store, k) /\ isExpired(MapGet(store, k), now))
          ~> (isDestroyed \/ ~MapHas(store, k) \/ ~isExpired(MapGet(store, k), now))
    /\ [][(Does("cleanup") /\ Active)
          => \A k \in Keys :
               (MapHas(store, k) /\ isExpired(MapGet(store, k), now))
               => TTLCache_has(isDestroyed', store', stats', k, now').ret = Bool(FALSE)]_vars

SweptUnreadEntry ==
    /\ Active
    /\ last.op = "cleanup"
    /\ last.path = "swept"
    /\ stats.expirations = 1
    /\ stats.hits + stats.misses = 0
    /\ store = <<>>

\* C25: matchesPattern(key, pattern) is true exactly when the whole key
\* matches the pattern, each * standing for any sequence of characters, empty
\* or not, line terminators included.
MatchesWholeKeyAnyCharacters ==
    last.op = "matchesPattern"
    => last.ret = Bool(GlobMatch(last.arg.pattern, last.arg.key))

\* C26: every pattern character other than * is matched literally: over a
\* letter and the characters . + ? ^ $ { } ( ) | [ ] \ matchesPattern agrees
\* with the reference matcher in which only * is special.
SpecialCharactersAreLiteral ==
    (/\ last.op = "matchesPattern"
     /\ \A i \in 1..Len(last.arg.key) : last.arg.key[i] \notin LineTerminators)
    => last.ret = Bool(GlobMatch(last.arg.pattern, last.arg.key))

DotPatternRejectsLetter ==
    /\ last.op = "matchesPattern"
    /\ last.arg = [key |-> <<"a", "a">>, pattern |-> <<"a", ".">>]
    /\ last.ret = Bool(FALSE)
    /\ Len(regexCache) = 1

\* C27: convertPatternToRegex(p) on a memoized p returns the stored object
\* and a memo entry stays as it is until clearCache(), so two calls with no
\* clearCache() between them return the identical object; after clearCache()
\* the call returns an object that did not exist before and that accepts
\* exactly the keys every earlier object compiled from p accepts.
MemoKeepsIdentityUntilCleared ==
    [][/\ (last'.op = "convertPatternToRegex" /\ last'.arg.type = "string")
          => LET p == last'.arg IN
             /\ MapHas(regexCache', p) /\ last'.ret = Ref(MapGet(regexCache', p).regex)
             /\ IF MapHas(regexCache, p)
                THEN /\ last'.ret = Ref(MapGet(regexCache, p).regex)
                     /\ regexCache' = regexCache
                     /\ regexes' = regexes
                ELSE /\ last'.ret.n = Len(regexes) + 1
                     /\ Len(regexes') = Len(regexes) + 1
                     /\ \A j \in 1..Len(regexes) :
                          regexes[j].pattern = p
                          => \A k \in SeqsUpTo({"a", "b"}, MaxGlobLen) :
                               RegexTest(regexes'[last'.ret.n], k) = RegexTest(regexes[j], k)
       /\ last'.op # "clearCache"
          => \A i \in 1..Len(regexCache) : regexCache'[i] = regexCache[i]
       /\ \A j \in 1..Len(regexes) : regexes'[j] = regexes[j]]_vars

RecompiledAfterClear ==
    /\ last.op = "convertPatternToRegex"
    /\ last.path = "compiled"
    /\ last.arg = Str(<<"a", "*">>)
    /\ \E j \in 1..Len(regexes) : j # last.ret.n /\ regexes[j].pattern = last.arg
    /\ Len(regexCache) = 2

\* C28: convertPatternToRegex raises for null, undefined, a number and an
\* object, and a call that raises leaves the memo as it was: nothing is
\* stored for the rejected argument.
NonStringRaisesAndStoresNothing ==
    [][(last'.op = "convertPatternToRegex" /\ last'.arg \in NonStrings)
       => /\ last'.ret = Threw
          /\ regexCache' = regexCache
          /\ regexes' = regexes
          /\ ~MapHas(regexCache', last'.arg)]_vars

ObjectArgumentRaised ==
    /\ last.op = "convertPatternToRegex"
    /\ last.arg.type = "object"
    /\ last.ret = Threw
    /\ Len(regexCache) = 2

\* C29: getCache(name) returns the registered instance on every call until
\* deleteCache(name) or clearAll(): a registry entry changes in no other call,
\* a call on a registered name returns its instance and constructs nothing
\* whatever config it is given, no call changes the maxSize or defaultTTL of
\* an instance, and getCacheNames() lists no name twice.
GetCacheIsStable ==
    [][/\ Does("getCache")
          => LET name == last'.arg.name IN
             /\ MapHas(caches', name) /\ last'.ret = Ref(MapGet(caches', name).cache)
             /\ MapHas(caches, name)
                => /\ last'.ret = Ref(MapGet(caches, name).cache)
                   /\ caches' = caches
                   /\ instances' = instances
       /\ \A i \in 1..Len(caches) :
            (MapHas(caches', caches[i].key) /\ MapGet(caches', caches[i].key) # caches[i])
            => last'.op \in {"deleteCache", "clearAll"}
       /\ \A i \in 1..Len(caches) :
            ~MapHas(caches', caches[i].key)
            => \/ last'.op = "clearAll"
               \/ last'.op = "deleteCache" /\ last'.arg.name = caches[i].key
       /\ \A id \in 1..Len(instances) :
            /\ instances'[id].maxSize = instances[id].maxSize
            /\ instances'[id].defaultTTL = instances[id].defaultTTL
       /\ LET names == CacheManager_getCacheNames(caches') IN
          \A i, j \in 1..Len(names) : names[i] = names[j] => i = j]_vars

LaterConfigIgnored ==
    /\ last.op = "getCache"
    /\ last.path = "existing"
    /\ last.arg.config = Config(<<2>>, <<1>>)
    /\ instances[last.ret.n].maxSize = 100
    /\ instances[last.ret.n].defaultTTL = 300000
    /\ instances[last.ret.n].store # <<>>
    /\ Len(caches) = 2

\* C30: deleteCache(name) returns true exactly when name is registered; it
\* then empties that cache and unregisters the name and leaves every other
\* cache and its contents as they were, so that the next getCache(name)
\* constructs a new, empty instance; on an unregistered name it returns false
\* and changes nothing.
DeleteCacheClearsAndUnregisters ==
    [][/\ Does("deleteCache")
          => LET name == last'.arg.name IN
             IF MapHas(caches, name)
             THEN LET id == MapGet(caches, name).cache IN
                  /\ last'.ret = Bool(TRUE)
                  /\ instances'[id].store = <<>>
                  /\ instances'[id].stats = ZeroStats
                  /\ caches' = SelectSeq(caches, LAMBDA e : e.key # name)
                  /\ Len(instances') = Len(instances)
                  /\ \A j \in 1..Len(instances) : j # id => instances'[j] = instances[j]
             ELSE /\ last'.ret = Bool(FALSE)
                  /\ caches' = caches
                  /\ instances' = instances
       /\ (Does("getCache") /\ ~MapHas(caches, last'.arg.name))
          => /\ last'.ret.n = Len(instances) + 1
             /\ Len(instances') = Len(instances) + 1
             /\ instances'[last'.ret.n].store = <<>>
             /\ instances'[last'.ret.n].stats = ZeroStats
             /\ \A j \in 1..Len(instances) : instances'[j] = instances[j]]_vars

DeletedFilledCacheBesideAnother ==
    /\ last.op = "deleteCache"
    /\ last.ret = Bool(TRUE)
    /\ Len(caches) = 1
    /\ instances[caches[1].cache].store # <<>>
    /\ \E id \in 1..Len(instances) :
          /\ id # caches[1].cache
          /\ instances[id].store = <<>>
          /\ instances[id].stats = ZeroStats

\* C31: clearAll() empties every registered cache: each instance that was
\* registered has no entries and zeroed statistics afterwards, read through
\* the reference a caller obtained before the call; getCacheNames() is empty
\* afterwards; instances that were not registered any more are untouched.
ClearAllEmptiesEveryRegisteredCache ==
    [][Does("clearAll")
       => /\ CacheManager_getCacheNames(caches') = <<>>
          /\ Len(instances') = Len(instances)
          /\ \A i \in 1..Len(caches) :
                /\ instances'[caches[i].cache].store = <<>>
                /\ instances'[caches[i].cache].stats = ZeroStats
                /\ instances'[caches[i].cache].stats.size = 0
          /\ \A id \in 1..Len(instances) :
                (\A i \in 1..Len(caches) : caches[i].cache # id)
                => instances'[id] = instances[id]]_vars

ClearedAllBesideDetachedCache ==
    /\ last.op = "clearAll"
    /\ caches = <<>>
    /\ Len(instances) = 2
    /\ instances[1].store # <<>>
    /\ instances[2].store = <<>> /\ instances[2].stats = ZeroStats

\* C32: LRUStrategy.findKeyToEvict returns, for every non-empty entry map,
\* the key of an entry whose lastAccess is the minimum of the map, and among
\* the entries with that minimum the first in iteration order.
LRUReturnsLeastRecentlyUsed ==
    (last.op = "lru" /\ store # <<>>)
    => /\ last.ret.defined
       /\ \E i \in 1..Len(store) :
             /\ store[i].key = last.ret.key
             /\ \A j \in 1..Len(store) : store[i].lastAccess <= store[j].lastAccess
             /\ \A j \in 1..(i - 1) : store[j].lastAccess > store[i].lastAccess

LRUTieTakesFirst ==
    /\ last.op = "lru"
    /\ Len(store) = 2
    /\ store[1].lastAccess = 1 /\ store[2].lastAccess = 1
    /\ store[2].accessCount < store[1].accessCount
    /\ store[2].timestamp < store[1].timestamp
    /\ last.ret = SomeKey(store[1].key)

\* C33: LFUStrategy.findKeyToEvict returns, for every non-empty entry map,
\* the key of an entry whose accessCount is the minimum of the map, and among
\* the entries with that minimum the first in iteration order.
LFUReturnsLeastFrequentlyUsed ==
    (last.op = "lfu" /\ store # <<>>)
    => /\ last.ret.defined
       /\ \E i \in 1..Len(store) :
             /\ store[i].key = last.ret.key
             /\ \A j \in 1..Len(store) : store[i].accessCount <= store[j].accessCount
             /\ \A j \in 1..(i - 1) : store[j].accessCount > store[i].accessCount

LFUTieTakesFirst ==
    /\ last.op = "lfu"
    /\ Len(store) = 2
    /\ store[1].accessCount = 1 /\ store[2].accessCount = 1
    /\ store[2].lastAccess < store[1].lastAccess
    /\ last.ret = SomeKey(store[1].key)

\* C34: FIFOStrategy.findKeyToEvict returns the first key of the map in
\* insertion order, whatever the lastAccess, accessCount, createdAt and ttl
\* of the entries are.
FIFOReturnsFirstInserted ==
    (last.op = "fifo" /\ store # <<>>) => last.ret = SomeKey(store[1].key)

FIFOIgnoredEveryField ==
    /\ last.op = "fifo"
    /\ Len(store) = 2
    /\ store[2].lastAccess < store[1].lastAccess
    /\ store[2].accessCount < store[1].accessCount
    /\ store[2].timestamp < store[1].timestamp
    /\ store[2].ttl = Finite(1) /\ store[1].ttl = Infinity
    /\ last.ret = SomeKey(store[1].key)

\* C35: TTLStrategy.findKeyToEvict returns, for every non-empty entry map,
\* the key of an entry whose createdAt + ttl is the minimum of the map, and
\* among the entries with that minimum the first in iteration order.
TTLReturnsNearestExpiry ==
    (last.op = "ttl" /\ store # <<>>)
    => /\ last.ret.defined
       /\ \E i \in 1..Len(store) :
             LET expiry(e) == Plus(Finite(e.timestamp), e.ttl) IN
             /\ store[i].key = last.ret.key
             /\ \A j \in 1..Len(store) : ~Less(expiry(store[j]), expiry(store[i]))
             /\ \A j \in 1..(i - 1) : Less(expiry(store[i]), expiry(store[j]))

\* C36: each of the four strategies returns undefined exactly when the entry
\* map is empty, and for a non-empty map a key that is in the map.
UndefinedOnlyForEmptyMap ==
    last.op \in {"lru", "lfu", "fifo", "ttl"}
    => /\ last.ret.defined <=> store # <<>>
       /\ last.ret.defined => last.ret.key \in MapKeySet(store)

\* C37: hits + misses equals the number of get calls made since the cache
\* was constructed or last cleared: each get adds exactly 1 to exactly one of
\* hits and misses, clear() sets both to 0, and set, has, delete,
\* invalidatePattern and the cleanup sweep change neither.
HitsPlusMissesCountGets ==
    /\ [](stats.hits + stats.misses = pc)
    /\ [][/\ Does("get") /\ pc' # pc
             => \/ stats'.hits = stats.hits + 1 /\ stats'.misses = stats.misses
                \/ stats'.hits = stats.hits /\ stats'.misses = stats.misses + 1
          /\ last'.op \in {"set", "has", "delete", "invalidatePattern", "cleanup"}
             => stats'.hits = stats.hits /\ stats'.misses = stats.misses]_vars

CountedGetsThenOtherCalls ==
    /\ pc = 2
    /\ stats.hits = 1
    /\ stats.misses = 1
    /\ stats.expirations = 1
    /\ last.op = "invalidatePattern"
    /\ last.ret.n = 1

\* C38: a successful get does not extend the lifetime of an entry: the
\* timestamp and the ttl of a stored entry change only in a set of its key,
\* and a get of a stored entry later than timestamp + ttl returns undefined,
\* however often the entry was read before.
GetDoesNotExtendLifetime ==
    [][/\ \A i \in 1..Len(store) :
            (MapHas(store', store[i].key) /\ ~(Does("set") /\ last'.arg = store[i].key))
            => /\ MapGet(store', store[i].key).timestamp = store[i].timestamp
               /\ MapGet(store', store[i].key).ttl = store[i].ttl
       /\ (Does("get") /\ pc' # pc /\ MapHas(store, last'.arg)
             /\ now > MapGet(store, last'.arg).timestamp + MapGet(store, last'.arg).ttl)
          => /\ last'.ret = Undefined
             /\ ~MapHas(store', last'.arg)]_vars

ExpiredAfterRead ==
    /\ last.op = "get"
    /\ last.path = "expired"
    /\ last.calls[1][3].accessCount = 1
    /\ last.calls[1][3].lastAccess = last.calls[1][3].timestamp + last.calls[1][3].ttl
    /\ stats.hits = 1

\* C39: once a TTLCache is destroyed no later call changes what keys() and
\* getStats() return, invalidatePattern included, and every later call
\* returns an empty result (undefined, false or 0) and does not throw.
DestroyedCacheIsFrozen ==
    [][(isDestroyed /\ now' = now)
       => /\ MapKeys(store') = MapKeys(store)
          /\ stats' = stats
          /\ last'.ret \in {Void, Undefined, Bool(FALSE), Num(0)}]_vars

\* C40: withTimeout leaves no pending timer once it has settled: when the
\* wrapped promise fulfils or rejects before the timer fired, so that the
\* promise withTimeout returned is settled by the wrapped promise, the timer
\* the call started is not pending any more.
NoPendingTimerOnceSettled ==
    \A i \in 1..Len(timeouts) :
        (/\ timeouts[i].returned.state # "pending"
         /\ timeouts[i].by = "promise")
        => timeouts[i].timer.state # "pending"
====
